---- MODULE Spec2Model ----
(***************************************************************************)
(* Model of the angle dial (src/src/angle_knob.rs, angle_knob) and of the  *)
(* compass ribbon (src/src/compass_knob.rs, CompassKnob::ui).              *)
(*                                                                         *)
(* Angles are exact multiples of a quarter turn divided by Res: PI is      *)
(* 2*Res units and TAU is 4*Res units.  f32 rounding is not modelled; the  *)
(* arithmetic is the exact arithmetic the f32 code approximates.           *)
(*                                                                         *)
(* One control is bound to one caller-owned backing value.  Every frame    *)
(* the caller invokes the control with its configuration as arguments      *)
(* (immediate mode), so the configuration is an input of each frame.       *)
(* `frame` holds the inputs and the Response of the frame that has just    *)
(* run; EndFrame drops it when the caller is done with the Response.       *)
(***************************************************************************)
EXTENDS Integers, Sequences, FiniteSets, TLC

VARIABLES widget, value, status, frame, anim, dragging, others

vars == <<widget, value, status, frame, anim, dragging, others>>

\* ------------------------------------------------------------------ bounds
\* Angle units per quarter turn.
Res == 1
\* The backing value is kept within MaxTurns turns (plus half a turn) of 0.
MaxTurns == 2

PI == 2 * Res
TAU == 4 * Res
MaxAbs == MaxTurns * TAU + PI
Values == (0 - MaxAbs)..MaxAbs

\* ------------------------------------------------------------ Option<f32>
None == {}
Some(v) == {v}
IsSome(o) == o # {}
Unwrap(o) == CHOOSE v \in o : TRUE

\* --------------------------------------------------------- f32 operations
\* a % b of Rust: the remainder has the sign of the dividend (b > 0).
FRem(a, b) == IF a >= 0 THEN a % b ELSE 0 - ((0 - a) % b)

\* (a / b).round() of Rust for b # 0: nearest integer, halves away from zero.
RoundDiv(a, b) ==
    LET n == IF b < 0 THEN 0 - a ELSE a
        d == IF b < 0 THEN 0 - b ELSE b
    IN  IF n >= 0 THEN (2 * n + d) \div (2 * d)
        ELSE 0 - ((2 * (0 - n) + d) \div (2 * d))

Fmax(a, b) == IF a >= b THEN a ELSE b
Fmin(a, b) == IF a <= b THEN a ELSE b
Abs(a) == IF a >= 0 THEN a ELSE 0 - a

\* --------------------------------------------------------------- the dial
Orientations ==
    { [tag |-> "Right", angle |-> 0], [tag |-> "Bottom", angle |-> 0],
      [tag |-> "Left", angle |-> 0], [tag |-> "Top", angle |-> 0],
      [tag |-> "Custom", angle |-> 1] }
Directions == {"Clockwise", "Counterclockwise"}
Modes == {"Signed", "Unsigned", "SpinAround"}

\* Mutant of rot2: Top and Bottom exchanged.
rot2_TopAsBottom(orientation) ==
    CASE orientation.tag = "Right" -> 0
      [] orientation.tag = "Bottom" -> (3 * PI) \div 2
      [] orientation.tag = "Left" -> PI
      [] orientation.tag = "Top" -> PI \div 2
      [] orientation.tag = "Custom" -> orientation.angle

\* AngleKnobOrientation::rot2: the angle of the orientation's rotation.
rot2(orientation) ==
    CASE orientation.tag = "Right" -> 0
      [] orientation.tag = "Bottom" -> PI \div 2
      [] orientation.tag = "Left" -> PI
      [] orientation.tag = "Top" -> (3 * PI) \div 2
      [] orientation.tag = "Custom" -> orientation.angle

\* value_direction of angle_knob.
value_direction(direction) == IF direction = "Clockwise" THEN 1 ELSE 0 - 1

\* A vector pointer_pos - center by its polar angle theta, or the zero vector.
ZeroVec == [zero |-> TRUE, theta |-> 0]
Pointers == {ZeroVec} \cup {[zero |-> FALSE, theta |-> t] : t \in 0..(TAU - 1)}

\* Mutant of InverseRotate: the rotation applied forward.
InverseRotate_Forward(rot, v) ==
    IF v.zero THEN v ELSE [zero |-> FALSE, theta |-> v.theta + rot]

\* rotation_matrix.inverse() * v: the vector turned back by the rotation.
InverseRotate(rot, v) ==
    IF v.zero THEN v ELSE [zero |-> FALSE, theta |-> v.theta - rot]

\* Vec2::angle(): atan2(y, x), in (-PI, PI]; atan2(0, 0) is 0.
VecAngle(v) ==
    IF v.zero THEN 0
    ELSE LET r == v.theta % TAU IN IF r > PI THEN r - TAU ELSE r

\* The raw angle: lines 125-128.
RawAngle(orientation, direction, pointer) ==
    VecAngle(InverseRotate(rot2(orientation), pointer)) * value_direction(direction)

\* Lines 130-132.
DialUnsigned(mode, new_value) ==
    IF mode = "Unsigned" THEN FRem(new_value + TAU, TAU) ELSE new_value

\* Mutant of DialSpinAround: the one-turn correction left out.
DialSpinAround_NoCorrection(mode, prev, new_value) ==
    IF mode = "SpinAround" THEN new_value + RoundDiv(prev, TAU) * TAU ELSE new_value

\* Mutant of DialSpinAround: a jump of more than half a turn is corrected by
\* half a turn.
DialSpinAround_HalfTurn(mode, prev, new_value) ==
    IF mode = "SpinAround"
    THEN LET prev_turns == RoundDiv(prev, TAU)
             n == new_value + prev_turns * TAU
         IN  IF n - prev > PI THEN n - PI
             ELSE IF n - prev < 0 - PI THEN n + PI
             ELSE n
    ELSE new_value

\* Mutant of DialSpinAround: the turns of the previous value are not added.
DialSpinAround_SnapBack(mode, prev, new_value) == new_value

\* Lines 134-143.
DialSpinAround(mode, prev, new_value) ==
    IF mode = "SpinAround"
    THEN LET prev_turns == RoundDiv(prev, TAU)
             n == new_value + prev_turns * TAU
         IN  IF n - prev > PI THEN n - TAU
             ELSE IF n - prev < 0 - PI THEN n + TAU
             ELSE n
    ELSE new_value

\* Mutant of SelectedSnap: an absent step falls back to the other one.
SelectedSnap_Fallback(shift, snap, shift_snap) ==
    IF shift THEN (IF IsSome(shift_snap) THEN shift_snap ELSE snap)
    ELSE (IF IsSome(snap) THEN snap ELSE shift_snap)

\* The snap step of the frame: shift picks the shift step (lines 145-149, 213-217).
SelectedSnap(shift, snap, shift_snap) == IF shift THEN shift_snap ELSE snap

\* Mutant of SnapTo: the quotient is rounded down instead of to the nearest.
SnapTo_Floor(v, angle) == (v \div angle) * angle

\* (v / angle).round() * angle.
SnapTo(v, angle) == RoundDiv(v, angle) * angle

\* Lines 150-151, once the assertion has passed.
DialSnap(sel, new_value) ==
    IF IsSome(sel) THEN SnapTo(new_value, Unwrap(sel)) ELSE new_value

\* Mutant of DialClamp: max is not applied.
DialClamp_MinOnly(min, max, new_value) ==
    IF IsSome(min) THEN Fmax(new_value, Unwrap(min)) ELSE new_value

\* Lines 154-160.
DialClamp(min, max, new_value) ==
    LET a == IF IsSome(min) THEN Fmax(new_value, Unwrap(min)) ELSE new_value
    IN  IF IsSome(max) THEN Fmin(a, Unwrap(max)) ELSE a

\* Mutant of SnapFaults: only a zero step is refused.
SnapFaults_ZeroOnly(sel) == IsSome(sel) /\ Unwrap(sel) = 0

\* The assertion of lines 150 and 218-221 fails.
SnapFaults(sel) == IsSome(sel) /\ ~(Unwrap(sel) > 0)

\* ------------------------------------------------- the frame and Response
\* What a frame leaves behind: its inputs, the value it started from, and the
\* Response (changed) with what the handler did (wrote, faulted, retarget,
\* displayed).
MkFrame(op, prev, cfg, inp, out) ==
    [op |-> op, prev |-> prev,
     mode |-> cfg.mode, min |-> cfg.min, max |-> cfg.max,
     snap |-> cfg.snap, shift_snap |-> cfg.shift_snap,
     orientation |-> inp.orientation, direction |-> inp.direction,
     pointer |-> inp.pointer, shift |-> inp.shift,
     dx |-> inp.dx, width |-> inp.width, spread |-> inp.spread,
     animated |-> inp.animated, visible |-> inp.visible,
     changed |-> out.changed, wrote |-> out.wrote, faulted |-> out.faulted,
     retarget |-> out.retarget, displayed |-> out.displayed]

NoCfg == [mode |-> "Signed", min |-> None, max |-> None,
          snap |-> None, shift_snap |-> None]
NoInp == [orientation |-> [tag |-> "Right", angle |-> 0],
          direction |-> "Clockwise", pointer |-> ZeroVec, shift |-> FALSE,
          dx |-> 0, width |-> 1, spread |-> 1,
          animated |-> FALSE, visible |-> FALSE]
NoOut == [changed |-> FALSE, wrote |-> FALSE, faulted |-> FALSE,
          retarget |-> None, displayed |-> None]
NoFrame == MkFrame("none", 0, NoCfg, NoInp, NoOut)

\* ------------------------------------------------------- angle_knob (dial)
\* The value the click/drag branch commits (lines 125-162), the assertion passed.
DialCommit(prev, orientation, direction, mode, min, max, sel, pointer) ==
    DialClamp(min, max,
        DialSnap(sel,
            DialSpinAround(mode, prev,
                DialUnsigned(mode, RawAngle(orientation, direction, pointer)))))

\* A frame with response.clicked() || response.dragged(): lines 124-164.
DialInteract(cfg, orientation, direction, pointer, shift) ==
    LET sel == SelectedSnap(shift, cfg.snap, cfg.shift_snap)
        inp == [NoInp EXCEPT !.orientation = orientation, !.direction = direction,
                             !.pointer = pointer, !.shift = shift, !.visible = TRUE]
        new_value == DialCommit(value, orientation, direction, cfg.mode,
                                cfg.min, cfg.max, sel, pointer)
    IN  /\ widget = "dial"
        /\ status = "running"
        /\ frame.op = "none"
        /\ IF SnapFaults(sel)
           THEN /\ status' = "panicked"
                /\ value' = value
                /\ frame' = MkFrame("dial", value, cfg, inp,
                                    [NoOut EXCEPT !.faulted = TRUE])
           ELSE /\ new_value \in Values
                /\ status' = status
                /\ value' = new_value
                /\ frame' = MkFrame("dial", value, cfg, inp,
                                    [NoOut EXCEPT !.changed = TRUE, !.wrote = TRUE,
                                                  !.displayed = Some(new_value)])
        /\ UNCHANGED <<widget, anim, dragging, others>>

\* Mutant of DialIdle: the painting frame stores the value folded into one turn.
DialIdle_Writes ==
    /\ widget = "dial"
    /\ status = "running"
    /\ frame.op = "none"
    /\ value' = FRem(value, TAU)
    /\ frame' = MkFrame("dial_idle", value, NoCfg, [NoInp EXCEPT !.visible = TRUE],
                        [NoOut EXCEPT !.displayed = Some(value)])
    /\ UNCHANGED <<widget, status, anim, dragging, others>>

\* A frame in which the dial is neither clicked nor dragged: only painting.
DialIdle ==
    /\ widget = "dial"
    /\ status = "running"
    /\ frame.op = "none"
    /\ frame' = MkFrame("dial_idle", value, NoCfg, [NoInp EXCEPT !.visible = TRUE],
                        [NoOut EXCEPT !.displayed = Some(value)])
    /\ UNCHANGED <<widget, value, status, anim, dragging, others>>

\* ------------------------------------------------ the animation of a value
\* Frames the 0.1 time units of animate_value_with_time last.
AnimFrames == 2

\* The entry of the animation table under the ribbon's id.
NoAnim == [live |-> FALSE, from |-> 0, to |-> 0, age |-> 0]
Anim(from, to, age) == [live |-> TRUE, from |-> from, to |-> to, age |-> age]

\* Mutant of Interpolate: the last step toward the target is never taken.
Interpolate_Stuck(from, to, t) ==
    IF t <= 0 THEN from
    ELSE from + ((to - from) * (IF t >= AnimFrames THEN AnimFrames - 1 ELSE t))
                    \div AnimFrames

\* The interpolated value t frames after the animation was (re)started.
Interpolate(from, to, t) ==
    IF t >= AnimFrames THEN to
    ELSE IF t <= 0 THEN from
    ELSE from + ((to - from) * t) \div AnimFrames

\* ctx.animate_value_with_time(id, target, 0.1): the value to show.
AnimateValue(a, target) ==
    IF a.live THEN Interpolate(a.from, a.to, a.age + 1) ELSE target

\* ctx.animate_value_with_time(id, target, 0.1): the entry it leaves.
AnimateEntry(a, target) ==
    IF ~a.live THEN Anim(target, target, AnimFrames)
    ELSE IF a.to # target THEN Anim(AnimateValue(a, target), target, 0)
    ELSE a

\* Mutant of ClearAnimations: the table is left as it is.
ClearAnimations_Keep(a) == a

\* ctx.clear_animations(): every entry of the table is dropped.
ClearAnimations(a) == NoAnim

\* ------------------------------------------------------ CompassKnob::ui
\* emath::normalized_angle: into [-PI, PI] (compass_knob.rs:179-180).
normalized_angle(angle) ==
    LET r == FRem(angle, TAU)
    IN  IF r > PI THEN r - TAU
        ELSE IF r < 0 - PI THEN r + TAU
        ELSE r

\* common::normalized_angle_unsigned_incl: into [0, TAU] (compass_knob.rs:184-185).
normalized_angle_unsigned_incl(angle) ==
    IF angle < 0 THEN FRem(FRem(angle, TAU) + TAU, TAU)
    ELSE IF angle > TAU THEN FRem(angle, TAU)
    ELSE angle

\* Mutant of constrain_value: Signed values are not normalized.
constrain_value_SkipSigned(mode, min, max, v) ==
    LET b == IF mode = "Unsigned" THEN normalized_angle_unsigned_incl(v) ELSE v
        c == IF IsSome(min) THEN Fmax(b, Unwrap(min)) ELSE b
    IN  IF IsSome(max) THEN Fmin(c, Unwrap(max)) ELSE c

\* Mutant of constrain_value: Unsigned values are not normalized.
constrain_value_SkipUnsigned(mode, min, max, v) ==
    LET a == IF mode = "Signed" THEN normalized_angle(v) ELSE v
        c == IF IsSome(min) THEN Fmax(a, Unwrap(min)) ELSE a
    IN  IF IsSome(max) THEN Fmin(c, Unwrap(max)) ELSE c

\* Mutant of constrain_value: the Signed fold is a fold into [0, TAU) moved
\* down by half a turn.
constrain_value_ShiftedSigned(mode, min, max, v) ==
    LET a == IF mode = "Signed" THEN FRem(FRem(v, TAU) + TAU, TAU) - PI ELSE v
        b == IF mode = "Unsigned" THEN normalized_angle_unsigned_incl(a) ELSE a
        c == IF IsSome(min) THEN Fmax(b, Unwrap(min)) ELSE b
    IN  IF IsSome(max) THEN Fmin(c, Unwrap(max)) ELSE c

\* Mutant of constrain_value: the clamp comes before the fold.
constrain_value_ClampFirst(mode, min, max, v) ==
    LET c == IF IsSome(min) THEN Fmax(v, Unwrap(min)) ELSE v
        d == IF IsSome(max) THEN Fmin(c, Unwrap(max)) ELSE c
        a == IF mode = "Signed" THEN normalized_angle(d) ELSE d
    IN  IF mode = "Unsigned" THEN normalized_angle_unsigned_incl(a) ELSE a

\* The closure constrain_value: lines 177-197.
constrain_value(mode, min, max, v) ==
    LET a == IF mode = "Signed" THEN normalized_angle(v) ELSE v
        b == IF mode = "Unsigned" THEN normalized_angle_unsigned_incl(a) ELSE a
        c == IF IsSome(min) THEN Fmax(b, Unwrap(min)) ELSE b
    IN  IF IsSome(max) THEN Fmin(c, Unwrap(max)) ELSE c

\* Mutant of DragCandidate: the drag delta added instead of subtracted.
DragCandidate_Added(prev, dx, width, spread) == prev + (dx * spread) \div width

\* get() - drag_delta().x / rect.width() * spread: line 201.  The widths and
\* spreads of the model make the quotient exact.
DragCandidate(prev, dx, width, spread) == prev - (dx * spread) \div width

\* Mutant of RibbonDragCommit: the drag frame snaps its candidate.
RibbonDragCommit_Snapping(prev, mode, min, max, dx, width, spread) ==
    constrain_value(mode, min, max, SnapTo(DragCandidate(prev, dx, width, spread), 2))

\* The value the drag branch commits: lines 200-202.
RibbonDragCommit(prev, mode, min, max, dx, width, spread) ==
    constrain_value(mode, min, max, DragCandidate(prev, dx, width, spread))

\* Mutant of RibbonSnapCommit: the rounded value is committed as it is.
RibbonSnapCommit_Unconstrained(prev, mode, min, max, angle) == SnapTo(prev, angle)

\* The value the release branch commits, the assertion passed: lines 222-223.
RibbonSnapCommit(prev, mode, min, max, angle) ==
    constrain_value(mode, min, max, SnapTo(prev, angle))

\* Mutant of RenderValue: the animated value is shown while dragging too.
RenderValue_IgnoresDrag(animated, is_dragged, a, committed) ==
    IF animated THEN AnimateValue(a, committed) ELSE committed

\* The value used for rendering: lines 231-236.
RenderValue(animated, is_dragged, a, committed) ==
    IF animated /\ ~is_dragged THEN AnimateValue(a, committed) ELSE committed

\* Mutant of RenderEntry: a dragged frame drops the animation.
RenderEntry_ResetOnDrag(animated, is_dragged, a, committed) ==
    IF animated /\ ~is_dragged THEN AnimateEntry(a, committed)
    ELSE IF animated THEN NoAnim
    ELSE a

\* The animation entry the rendering leaves: lines 231-236.
RenderEntry(animated, is_dragged, a, committed) ==
    IF animated /\ ~is_dragged THEN AnimateEntry(a, committed) ELSE a

\* A frame with response.dragged(): lines 199-204, then the painting.
RibbonDragFrame(cfg, dx, width, spread, animated, visible) ==
    LET inp == [NoInp EXCEPT !.dx = dx, !.width = width, !.spread = spread,
                             !.animated = animated, !.visible = visible]
        new_value == RibbonDragCommit(value, cfg.mode, cfg.min, cfg.max,
                                      dx, width, spread)
    IN  /\ widget = "ribbon"
        /\ status = "running"
        /\ frame.op = "none"
        /\ new_value \in Values
        /\ value' = new_value
        /\ dragging' = TRUE
        /\ anim' = IF visible THEN RenderEntry(animated, TRUE, anim, new_value)
                   ELSE anim
        /\ frame' = MkFrame("ribbon_drag", value, cfg, inp,
               [NoOut EXCEPT !.changed = TRUE, !.wrote = TRUE,
                   !.displayed = IF visible
                                 THEN Some(RenderValue(animated, TRUE, anim, new_value))
                                 ELSE None])
        /\ UNCHANGED <<widget, status, others>>

\* The frame with response.drag_released(): lines 206-226, then the painting.
RibbonReleaseFrame(cfg, shift, animated, visible) ==
    LET inp == [NoInp EXCEPT !.shift = shift, !.animated = animated,
                             !.visible = visible]
        sel == SelectedSnap(shift, cfg.snap, cfg.shift_snap)
        seeded == IF animated THEN AnimateEntry(ClearAnimations(anim), value)
                  ELSE anim
        retarget == IF animated THEN Some(value) ELSE None
        new_value == IF IsSome(sel)
                     THEN RibbonSnapCommit(value, cfg.mode, cfg.min, cfg.max,
                                           Unwrap(sel))
                     ELSE value
    IN  /\ widget = "ribbon"
        /\ status = "running"
        /\ frame.op = "none"
        /\ dragging
        /\ dragging' = FALSE
        /\ IF SnapFaults(sel)
           THEN /\ status' = "panicked"
                /\ value' = value
                /\ anim' = seeded
                /\ frame' = MkFrame("ribbon_release", value, cfg, inp,
                       [NoOut EXCEPT !.faulted = TRUE, !.retarget = retarget])
           ELSE /\ new_value \in Values
                /\ status' = status
                /\ value' = new_value
                /\ anim' = IF visible
                           THEN RenderEntry(animated, FALSE, seeded, new_value)
                           ELSE seeded
                /\ frame' = MkFrame("ribbon_release", value, cfg, inp,
                       [NoOut EXCEPT !.changed = IsSome(sel), !.wrote = IsSome(sel),
                           !.retarget = retarget,
                           !.displayed = IF visible
                               THEN Some(RenderValue(animated, FALSE, seeded, new_value))
                               ELSE None])
        /\ others' = IF animated THEN ClearAnimations(others) ELSE others
        /\ UNCHANGED widget

\* A frame without drag and without release: only the painting.
RibbonIdleFrame(animated, visible) ==
    LET inp == [NoInp EXCEPT !.animated = animated, !.visible = visible]
    IN  /\ widget = "ribbon"
        /\ status = "running"
        /\ frame.op = "none"
        /\ ~dragging
        /\ anim' = IF visible THEN RenderEntry(animated, FALSE, anim, value)
                   ELSE anim
        /\ frame' = MkFrame("ribbon_idle", value, NoCfg, inp,
               [NoOut EXCEPT !.displayed = IF visible
                                 THEN Some(RenderValue(animated, FALSE, anim, value))
                                 ELSE None])
        /\ UNCHANGED <<widget, value, status, dragging, others>>

\* Mutant of map_angle_to_screen: the offset from the center is added.
map_angle_to_screen_Mirrored(center_x, displayed, width, spread, angle) ==
    center_x + (displayed - angle) * (width \div spread)

\* The closure map_angle_to_screen: lines 238-239.  The widths of the model
\* are multiples of the spreads, which makes rect.width() / spread exact.
map_angle_to_screen(center_x, displayed, width, spread, angle) ==
    center_x - (displayed - angle) * (width \div spread)

\* paint_stop for an optional bound: lines 390-407.
PaintStop(center_x, displayed, width, spread, bound) ==
    IF IsSome(bound)
    THEN Some(map_angle_to_screen(center_x, displayed, width, spread, Unwrap(bound)))
    ELSE None

\* What the painting of a visible frame draws where: the cursor of the value
\* used for rendering (lines 331-338) and the stops of min and max.
Painting(center_x, displayed, width, spread, min, max) ==
    [center_x |-> center_x,
     cursor_x |-> map_angle_to_screen(center_x, displayed, width, spread, displayed),
     min_x |-> PaintStop(center_x, displayed, width, spread, min),
     max_x |-> PaintStop(center_x, displayed, width, spread, max)]

\* A visible frame without drag and without release, with what it painted.
RibbonPaintFrame(cfg, center_x, width, spread, animated) ==
    LET inp == [NoInp EXCEPT !.width = width, !.spread = spread,
                             !.animated = animated, !.visible = TRUE]
        displayed == RenderValue(animated, FALSE, anim, value)
    IN  /\ widget = "ribbon"
        /\ status = "running"
        /\ frame.op = "none"
        /\ ~dragging
        /\ anim' = RenderEntry(animated, FALSE, anim, value)
        /\ frame' = MkFrame("ribbon_paint", value, cfg, inp,
                            [NoOut EXCEPT !.displayed = Some(displayed)])
                    @@ Painting(center_x, displayed, width, spread, cfg.min, cfg.max)
        /\ UNCHANGED <<widget, value, status, dragging, others>>

\* Another animated control of the same egui context is run and queries the
\* animation of its own value (lines 231-233, under its own id).
OtherControlFrame(target) ==
    /\ status = "running"
    /\ frame.op = "none"
    /\ others' = AnimateEntry(others, target)
    /\ UNCHANGED <<widget, value, status, frame, anim, dragging>>

\* f32::to_degrees of an angle of the model's grid: Res units are a quarter turn.
to_degrees(v) == (v * 90) \div Res

\* The ribbon's labels: the default of CompassKnob::new, line 105.
labels == <<"N", "E", "S", "W">>

\* let round_bounds_to = 10.0: line 341.
round_bounds_to == 10

\* The spacing of the f32 values around a whole number of magnitude a: 1 up
\* to 2^24 (24 bits of mantissa), doubling with every further power of two.
RECURSIVE F32Ulp(_, _)
F32Ulp(a, u) == IF a \div u < 16777216 THEN u ELSE F32Ulp(a, 2 * u)

\* The f32 nearest to a whole number, ties to the even mantissa: what an f32
\* operation with that exact result returns.
F32(n) ==
    LET a == Abs(n)
        u == F32Ulp(a, 1)
        q == a \div u
        r == a % u
        m == IF 2 * r > u \/ (2 * r = u /\ q % 2 = 1) THEN (q + 1) * u ELSE q * u
    IN  IF n < 0 THEN 0 - m ELSE m

\* (x / round_bounds_to).floor() * round_bounds_to as isize: lines 344-346.
FloorBound(x) == F32((x \div round_bounds_to) * round_bounds_to)

\* (x / round_bounds_to).ceil() * round_bounds_to as isize: lines 348-350.
CeilBound(x) == F32((0 - ((0 - x) \div round_bounds_to)) * round_bounds_to)

\* Mutant of TickRange: the end of the range is left out.
TickRange_Exclusive(start_degrees, end_degrees) ==
    { start_degrees + 5 * k : k \in 0..((end_degrees - start_degrees) \div 5 - 1) }

\* (start_degrees..=end_degrees).step_by(5): line 352.
TickRange(start_degrees, end_degrees) ==
    { start_degrees + 5 * k : k \in 0..((end_degrees - start_degrees) \div 5) }

\* Integer division of Rust: the quotient is truncated toward zero.
TruncDiv(a, b) == IF a >= 0 THEN a \div b ELSE 0 - ((0 - a) \div b)

\* Mutant of TickClass: the label index is taken from the magnitude of the
\* quotient.
TickClass_AbsIndex(degree) ==
    IF FRem(degree, 90) = 0
    THEN [degree |-> degree, scale |-> 100, unreachable |-> FALSE,
          label |-> Some(labels[(Abs(TruncDiv(degree, 90)) % 4) + 1])]
    ELSE IF FRem(degree, 30) = 0
    THEN [degree |-> degree, scale |-> 75, label |-> None, unreachable |-> FALSE]
    ELSE IF FRem(degree, 10) = 0
    THEN [degree |-> degree, scale |-> 50, label |-> None, unreachable |-> FALSE]
    ELSE IF FRem(degree, 5) = 0
    THEN [degree |-> degree, scale |-> 30, label |-> None, unreachable |-> FALSE]
    ELSE [degree |-> degree, scale |-> 0, label |-> None, unreachable |-> TRUE]

\* The scale (in hundredths) and the label of the tick of a degree: lines
\* 360-371.  rem_euclid(4) is the remainder in 0..3.
TickClass(degree) ==
    IF FRem(degree, 90) = 0
    THEN [degree |-> degree, scale |-> 100, unreachable |-> FALSE,
          label |-> Some(labels[(TruncDiv(degree, 90) % 4) + 1])]
    ELSE IF FRem(degree, 30) = 0
    THEN [degree |-> degree, scale |-> 75, label |-> None, unreachable |-> FALSE]
    ELSE IF FRem(degree, 10) = 0
    THEN [degree |-> degree, scale |-> 50, label |-> None, unreachable |-> FALSE]
    ELSE IF FRem(degree, 5) = 0
    THEN [degree |-> degree, scale |-> 30, label |-> None, unreachable |-> FALSE]
    ELSE [degree |-> degree, scale |-> 0, label |-> None, unreachable |-> TRUE]

\* The ticks a visible frame paints: lines 341-371.  value_degrees and
\* half_degrees are the displayed value and half the spread in degrees; the
\* two ends of the window are f32 values.
Ticks(value_degrees, half_degrees) ==
    LET lo_degrees == F32(value_degrees - half_degrees)
        hi_degrees == F32(value_degrees + half_degrees)
        start_degrees == FloorBound(lo_degrees)
        end_degrees == CeilBound(hi_degrees)
    IN  [lo_degrees |-> lo_degrees, hi_degrees |-> hi_degrees,
         start_degrees |-> start_degrees, end_degrees |-> end_degrees,
         ticks |-> { TickClass(d) : d \in TickRange(start_degrees, end_degrees) }]

\* A visible frame without drag and without release, with the ticks it
\* painted.  The value and the spread are f32: value_frac and half_frac are
\* the degrees by which they lie above the grid of the model, and turns the
\* whole turns by which the value of a ribbon that was spun on lies beyond the
\* values the model keeps.  A tick that reaches unreachable!() panics.
RibbonTicksFrame(spread, animated, turns, value_frac, half_frac) ==
    LET inp == [NoInp EXCEPT !.spread = spread, !.animated = animated,
                             !.visible = TRUE]
        displayed == RenderValue(animated, FALSE, anim, value)
        painted == Ticks(to_degrees(displayed) + 360 * turns + value_frac,
                         to_degrees(spread) \div 2 + half_frac)
        faulted == \E t \in painted.ticks : t.unreachable
    IN  /\ widget = "ribbon"
        /\ status = "running"
        /\ frame.op = "none"
        /\ ~dragging
        /\ anim' = RenderEntry(animated, FALSE, anim, value)
        /\ status' = IF faulted THEN "panicked" ELSE status
        /\ frame' = MkFrame("ribbon_ticks", value, NoCfg, inp,
                            [NoOut EXCEPT !.displayed = Some(displayed),
                                          !.faulted = faulted])
                    @@ painted
        /\ UNCHANGED <<widget, value, dragging, others>>

\* common::normalized_angle_unsigned_excl: into [0, TAU) (compass_knob.rs:47).
normalized_angle_unsigned_excl(angle) == FRem(FRem(angle, TAU) + TAU, TAU)

\* enum CompassKnobMarkerShape: lines 30-34.
MarkerShapes == {"DownArrow", "UpArrow", "Square"}

\* Mutant of MarkerNew: the angle is stored as given.
MarkerNew_Raw(angle) ==
    [angle |-> angle, shape |-> "Square", label |-> None, color |-> "GRAY"]

\* CompassKnobMarker::new: lines 45-52.
MarkerNew(angle) ==
    [angle |-> normalized_angle_unsigned_excl(angle), shape |-> "Square",
     label |-> None, color |-> "GRAY"]

\* CompassKnobMarker::shape: lines 54-57.
MarkerShape(marker, shape) == [marker EXCEPT !.shape = shape]

\* CompassKnobMarker::label: lines 59-62.
MarkerLabel(marker, label) == [marker EXCEPT !.label = Some(label)]

\* CompassKnobMarker::color: lines 64-67.
MarkerColor(marker, color) == [marker EXCEPT !.color = color]

\* A visible frame without drag and without release of a ribbon with one
\* marker, built by new(angle) and, when styled, the three setters; the frame
\* leaves the marker and where paint_marker drew it (lines 257, 317-329).
RibbonMarkerFrame(center_x, width, spread, angle, shape, styled) ==
    LET inp == [NoInp EXCEPT !.width = width, !.spread = spread, !.visible = TRUE]
        marker == IF styled
                  THEN MarkerColor(MarkerLabel(MarkerShape(MarkerNew(angle), shape),
                                               "A"), "RED")
                  ELSE MarkerNew(angle)
    IN  /\ widget = "ribbon"
        /\ status = "running"
        /\ frame.op = "none"
        /\ ~dragging
        /\ frame' = MkFrame("ribbon_marker", value, NoCfg, inp,
                            [NoOut EXCEPT !.displayed = Some(value)])
                    @@ [center_x |-> center_x, marker_arg |-> angle, marker |-> marker,
                        marker_x |-> map_angle_to_screen(center_x, value, width,
                                                         spread, marker.angle)]
        /\ UNCHANGED <<widget, value, status, anim, dragging, others>>

\* The caller drops the Response; the clock moves on to the next frame.
EndFrame ==
    /\ status = "running"
    /\ frame.op # "none"
    /\ frame' = NoFrame
    /\ anim' = IF anim.live /\ anim.age < AnimFrames
               THEN [anim EXCEPT !.age = anim.age + 1]
               ELSE anim
    /\ others' = IF others.live /\ others.age < AnimFrames
                 THEN [others EXCEPT !.age = others.age + 1]
                 ELSE others
    /\ UNCHANGED <<widget, value, status, dragging>>

\* ------------------------------------------------------- specifications
\* The control is run this frame: it is the bound control, the program has not
\* panicked, and the previous frame's Response has been dropped.
Ready(w) == widget = w /\ status = "running" /\ frame.op = "none"

Ranges ==
    { <<None, None>>, <<Some(0 - PI), Some(PI)>>, <<Some(0), None>>,
      <<None, Some(PI)>>, <<Some(0), Some(PI)>> }
Snaps ==
    { <<None, None>>, <<None, Some(3)>>, <<Some(2), None>>, <<Some(2), Some(3)>>,
      <<Some(0), Some(3)>>, <<Some(2), Some(0 - 1)>> }
Configs ==
    { [mode |-> m, min |-> r[1], max |-> r[2], snap |-> s[1], shift_snap |-> s[2]] :
        m \in Modes, r \in Ranges, s \in Snaps }
Widths == {Res, 2 * Res}
Spreads == {PI, TAU}
DragDeltas == (0 - 2 * Res)..(2 * Res)

Init ==
    /\ widget \in {"dial", "ribbon"}
    /\ value \in Values
    /\ status = "running"
    /\ frame = NoFrame
    /\ anim = NoAnim
    /\ dragging = FALSE
    /\ others = NoAnim

Next ==
    \/ /\ Ready("dial")
       /\ \E cfg \in Configs, orientation \in Orientations, direction \in Directions,
             pointer \in Pointers, shift \in BOOLEAN :
             DialInteract(cfg, orientation, direction, pointer, shift)
    \/ DialIdle
    \/ /\ Ready("ribbon")
       /\ \E cfg \in Configs, dx \in DragDeltas, width \in Widths, spread \in Spreads :
             RibbonDragFrame(cfg, dx, width, spread, FALSE, TRUE)
    \/ /\ Ready("ribbon")
       /\ \E cfg \in Configs, shift \in BOOLEAN :
             RibbonReleaseFrame(cfg, shift, FALSE, TRUE)
    \/ RibbonIdleFrame(FALSE, TRUE)
    \/ EndFrame

Spec == Init /\ [][Next]_vars

\* The animated ribbon: a ribbon in one of its two wrap modes, without min/max,
\* whose caller may switch the animation and the visibility from frame to frame.
AnimConfigs ==
    { [mode |-> m, min |-> None, max |-> None, snap |-> s[1], shift_snap |-> s[2]] :
        m \in {"Signed", "Unsigned"}, s \in Snaps }

InitAnim ==
    /\ widget = "ribbon"
    /\ value \in 0..TAU
    /\ status = "running"
    /\ frame = NoFrame
    /\ anim = NoAnim
    /\ dragging = FALSE
    /\ others = NoAnim

NextAnim ==
    \/ /\ Ready("ribbon")
       /\ \E cfg \in AnimConfigs, dx \in DragDeltas,
             animated \in BOOLEAN, visible \in BOOLEAN :
             RibbonDragFrame(cfg, dx, 2 * Res, PI, animated, visible)
    \/ /\ Ready("ribbon")
       /\ \E cfg \in AnimConfigs, shift \in BOOLEAN,
             animated \in BOOLEAN, visible \in BOOLEAN :
             RibbonReleaseFrame(cfg, shift, animated, visible)
    \/ \E animated \in BOOLEAN, visible \in BOOLEAN :
          RibbonIdleFrame(animated, visible)
    \/ EndFrame

SpecAnim == InitAnim /\ [][NextAnim]_vars

\* The animated ribbon on screen, run frame after frame: egui asks for the next
\* frame as long as an animation has not reached its target, and the caller
\* ends each frame it began.
NextSettle ==
    \/ /\ Ready("ribbon")
       /\ \E cfg \in AnimConfigs, dx \in DragDeltas :
             RibbonDragFrame(cfg, dx, 2 * Res, PI, TRUE, TRUE)
    \/ /\ Ready("ribbon")
       /\ \E cfg \in AnimConfigs, shift \in BOOLEAN, visible \in BOOLEAN :
             RibbonReleaseFrame(cfg, shift, TRUE, visible)
    \/ RibbonIdleFrame(TRUE, TRUE)
    \/ EndFrame

SpecSettle ==
    /\ InitAnim
    /\ [][NextSettle]_vars
    /\ WF_vars(RibbonIdleFrame(TRUE, TRUE))
    /\ WF_vars(EndFrame)

\* The painted ribbon: drags and releases of an animated ribbon, which may be
\* scrolled out of view when released, and frames that paint it at some place
\* of the screen with stops at min and max.
PaintConfigs ==
    { [mode |-> "Unsigned", min |-> r[1], max |-> r[2],
       snap |-> None, shift_snap |-> None] : r \in Ranges }
PaintCenters == {0, 3 * TAU}
PaintWidths == {TAU, 2 * TAU}

NextPaint ==
    \/ /\ Ready("ribbon")
       /\ \E cfg \in AnimConfigs, dx \in DragDeltas :
             RibbonDragFrame(cfg, dx, 2 * Res, PI, TRUE, TRUE)
    \/ /\ Ready("ribbon")
       /\ \E cfg \in AnimConfigs, shift \in BOOLEAN, visible \in BOOLEAN :
             RibbonReleaseFrame(cfg, shift, TRUE, visible)
    \/ /\ Ready("ribbon")
       /\ \E cfg \in PaintConfigs, center_x \in PaintCenters, width \in PaintWidths,
             spread \in Spreads, animated \in BOOLEAN :
             RibbonPaintFrame(cfg, center_x, width, spread, animated)
    \/ EndFrame

SpecPaint == InitAnim /\ [][NextPaint]_vars

\* Two animated controls in one egui context: the ribbon, and another control
\* whose value the caller moves between two targets.
OtherTargets == {0, PI}

TableConfigs ==
    { c \in AnimConfigs : c.mode = "Signed" /\ c.shift_snap = None }

NextTable ==
    \/ /\ Ready("ribbon")
       /\ \E cfg \in TableConfigs, dx \in DragDeltas :
             RibbonDragFrame(cfg, dx, 2 * Res, PI, TRUE, TRUE)
    \/ /\ Ready("ribbon")
       /\ \E cfg \in TableConfigs, shift \in BOOLEAN, animated \in BOOLEAN :
             RibbonReleaseFrame(cfg, shift, animated, TRUE)
    \/ RibbonIdleFrame(TRUE, TRUE)
    \/ /\ Ready("ribbon")
       /\ \E target \in OtherTargets : OtherControlFrame(target)
    \/ EndFrame

SpecTable == InitAnim /\ [][NextTable]_vars

\* The ticks of the ribbon: a SpinAround ribbon dragged over several turns, or
\* spun on by some ninety thousand turns, and frames that paint its ticks for
\* spreads from nothing to a full turn.
TickConfigs ==
    { c \in Configs : c.mode = "SpinAround" /\ c.min = None /\ c.max = None
                      /\ c.snap = None /\ c.shift_snap = None }
TickSpreads == {0, PI, TAU}
FracDegrees == {0, 3, 5, 10, 38}
TickTurns == {0, 93207}

NextTicks ==
    \/ /\ Ready("ribbon")
       /\ \E cfg \in TickConfigs, dx \in DragDeltas :
             RibbonDragFrame(cfg, dx, 2 * Res, PI, FALSE, TRUE)
    \/ /\ Ready("ribbon")
       /\ \E cfg \in TickConfigs : RibbonReleaseFrame(cfg, FALSE, FALSE, TRUE)
    \/ /\ Ready("ribbon")
       /\ \E spread \in TickSpreads, turns \in TickTurns,
             value_frac \in FracDegrees, half_frac \in FracDegrees :
             RibbonTicksFrame(spread, FALSE, turns, value_frac, half_frac)
    \/ EndFrame

SpecTicks == InitAnim /\ [][NextTicks]_vars

\* The ribbon with a marker: a ribbon without animation dragged in one of its
\* two folding wrap modes, and frames that paint it with a marker built from
\* an angle between more than a turn below zero and more than two turns.
MarkerConfigs ==
    { c \in AnimConfigs : c.snap = None /\ c.shift_snap = None }
MarkerAngles == (0 - TAU - 1)..(2 * TAU + 1)

NextMarker ==
    \/ /\ Ready("ribbon")
       /\ \E cfg \in MarkerConfigs, dx \in DragDeltas :
             RibbonDragFrame(cfg, dx, 2 * Res, PI, FALSE, TRUE)
    \/ /\ Ready("ribbon")
       /\ \E cfg \in MarkerConfigs : RibbonReleaseFrame(cfg, FALSE, FALSE, TRUE)
    \/ /\ Ready("ribbon")
       /\ \E center_x \in PaintCenters, width \in PaintWidths, spread \in Spreads,
             angle \in MarkerAngles, shape \in MarkerShapes, styled \in BOOLEAN :
             RibbonMarkerFrame(center_x, width, spread, angle, shape, styled)
    \/ EndFrame

SpecMarker == InitAnim /\ [][NextMarker]_vars

\* ------------------------------------------------------------ the claims
\* What the last frame was given and did.
FrameSel == SelectedSnap(frame.shift, frame.snap, frame.shift_snap)
NoRange == frame.min = None /\ frame.max = None
DialWrote == frame.op = "dial" /\ frame.wrote
\* The candidate of the last ribbon drag frame, before constrain_value.
FrameCandidate == frame.prev - (frame.dx * frame.spread) \div frame.width

\* C1: a committed value lies in [min, max] when both are given with
\* min <= max, is >= min when only min is given, <= max when only max is given.
C1_CommitWithinBounds ==
    frame.wrote =>
        /\ (IsSome(frame.min) /\ (IsSome(frame.max) => Unwrap(frame.min) <= Unwrap(frame.max)))
              => value >= Unwrap(frame.min)
        /\ IsSome(frame.max) => value <= Unwrap(frame.max)

\* C1 witness: a dial frame whose unclamped candidate exceeds max commits max.
C1_Witness ==
    /\ DialWrote
    /\ IsSome(frame.min) /\ IsSome(frame.max)
    /\ DialCommit(frame.prev, frame.orientation, frame.direction, frame.mode,
                  None, None, FrameSel, frame.pointer) > Unwrap(frame.max)
    /\ value = Unwrap(frame.max)

\* C2 as claimed: with no min/max the dial stores a value in (-PI, PI] in
\* Signed mode and in [0, TAU) in Unsigned mode.
C2_DialCanonicalInterval ==
    (DialWrote /\ NoRange) =>
        /\ frame.mode = "Signed" => (0 - PI < value /\ value <= PI)
        /\ frame.mode = "Unsigned" => (0 <= value /\ value < TAU)

\* C3 as claimed: the ribbon's constrain_value in Signed mode with no min/max
\* returns a value in (-PI, PI].
C3_SignedHalfOpen ==
    (frame.op = "ribbon_drag" /\ frame.mode = "Signed" /\ NoRange) =>
        (0 - PI < value /\ value <= PI)

\* C3 amended: the ribbon's constrain_value in Signed mode with no min/max
\* returns a value in the closed interval [-PI, PI].
C3_SignedClosed ==
    (frame.op = "ribbon_drag" /\ frame.mode = "Signed" /\ NoRange) =>
        (0 - PI <= value /\ value <= PI)

\* C3 witness: a candidate below -PI is folded onto -PI itself.
C3_Witness ==
    /\ frame.op = "ribbon_drag" /\ frame.mode = "Signed" /\ NoRange
    /\ FrameCandidate < 0 - PI
    /\ value = 0 - PI

C5_SpinAroundStep ==
    (DialWrote /\ frame.mode = "SpinAround" /\ NoRange) =>
        Abs(value - frame.prev) <= PI

\* C5 amended: in SpinAround mode with no min/max and no snap step selected, a
\* dial commit is within PI of the previous value.
C5_SpinAroundStepNoSnap ==
    (DialWrote /\ frame.mode = "SpinAround" /\ NoRange /\ FrameSel = None) =>
        Abs(value - frame.prev) <= PI

\* C5 witness: more than a turn away from 0, the commit took the one-turn
\* correction and landed within PI of the previous value.
C5_Witness ==
    /\ DialWrote /\ frame.mode = "SpinAround" /\ NoRange /\ FrameSel = None
    /\ frame.prev > TAU
    /\ value # RawAngle(frame.orientation, frame.direction, frame.pointer)
                  + RoundDiv(frame.prev, TAU) * TAU
    /\ Abs(value - frame.prev) <= PI

\* C6: a selected snap step <= 0 makes the frame that would snap fault, and
\* the backing value is not written in that frame.
C6_NonPositiveSnapFaults ==
    (frame.op \in {"dial", "ribbon_release"} /\ IsSome(FrameSel) /\ Unwrap(FrameSel) <= 0) =>
        /\ frame.faulted
        /\ status = "panicked"
        /\ ~frame.wrote
        /\ value = frame.prev

\* C6 witness: a ribbon release frame with a negative shift step has faulted.
C6_Witness ==
    /\ frame.op = "ribbon_release"
    /\ IsSome(FrameSel) /\ Unwrap(FrameSel) < 0
    /\ frame.faulted

\* C7 as claimed: a click or drag with the pointer exactly at the dial center
\* leaves the stored value unchanged.
C7_CenterLeavesValue ==
    (frame.op = "dial" /\ frame.pointer.zero) => value = frame.prev

\* C9: no ribbon drag frame snaps (the commit is the candidate up to whole
\* turns, or a bound it was clamped to), and every dial click/drag frame with a
\* selected step commits a multiple of the step (or a bound it was clamped to).
C9_SnapTiming ==
    /\ frame.op = "ribbon_drag" =>
          \/ IF frame.mode = "SpinAround" THEN value = FrameCandidate
             ELSE (value - FrameCandidate) % TAU = 0
          \/ IsSome(frame.min) /\ value = Unwrap(frame.min)
          \/ IsSome(frame.max) /\ value = Unwrap(frame.max)
    /\ (DialWrote /\ IsSome(FrameSel)) =>
          \/ value % Unwrap(FrameSel) = 0
          \/ IsSome(frame.min) /\ value = Unwrap(frame.min)
          \/ IsSome(frame.max) /\ value = Unwrap(frame.max)

\* C9 witness: a ribbon drag frame with a primary step of 2 commits a value
\* that is no multiple of 2.
C9_Witness ==
    /\ frame.op = "ribbon_drag" /\ NoRange
    /\ frame.snap = Some(2) /\ ~frame.shift
    /\ value % 2 # 0

\* The quarter turns of the named orientations, as the claim states them.
C10_Turn(orientation) ==
    CASE orientation.tag = "Right" -> 0
      [] orientation.tag = "Bottom" -> Res
      [] orientation.tag = "Left" -> 2 * Res
      [] orientation.tag = "Top" -> 3 * Res
      [] orientation.tag = "Custom" -> orientation.angle

\* A dial frame that commits the raw angle: no snap step, no min/max, pointer
\* off the center.
C10_RawFrame == DialWrote /\ FrameSel = None /\ NoRange /\ ~frame.pointer.zero

\* C10 as claimed: for Top orientation and Clockwise winding a pointer at
\* angle theta commits theta rotated by +3*PI/2, up to whole turns.
C10_TopClockwisePlus ==
    (C10_RawFrame /\ frame.orientation.tag = "Top" /\ frame.direction = "Clockwise") =>
        (value - (frame.pointer.theta + (3 * PI) \div 2)) % TAU = 0

\* C10 amended: the commit is the polar angle of the pointer vector turned back
\* by the orientation, times the winding sign, up to whole turns; for Top and
\* Clockwise it is theta rotated by -3*PI/2, which is theta + PI/2.
C10_RawAngle ==
    C10_RawFrame =>
        /\ (value - value_direction(frame.direction)
                      * (frame.pointer.theta - C10_Turn(frame.orientation))) % TAU = 0
        /\ (frame.orientation.tag = "Top" /\ frame.direction = "Clockwise") =>
              (value - (frame.pointer.theta + PI \div 2)) % TAU = 0

\* C10 witness: Top, Clockwise, Signed, pointer at theta = 0 commits PI/2.
C10_Witness ==
    /\ C10_RawFrame
    /\ frame.orientation.tag = "Top" /\ frame.direction = "Clockwise"
    /\ frame.mode = "Signed" /\ frame.pointer.theta = 0
    /\ value = PI \div 2

\* A release frame of an animated ribbon that ran to its end.
C8_AnimatedRelease == frame.op = "ribbon_release" /\ frame.animated /\ ~frame.faulted

\* C8 as claimed: on the release frame the animation is retargeted after the
\* snap, toward the post-snap committed value.
C8_RetargetAfterSnap ==
    C8_AnimatedRelease => frame.retarget = Some(value)

\* C8 amended: on the release frame the animation table is cleared and the
\* animation is seeded with the value the drag committed, before the snap; the
\* snapped value is committed after that, and only the painting of the same
\* frame, when the ribbon is visible, turns the animation toward it.
C8_SeedBeforeSnap ==
    C8_AnimatedRelease =>
        /\ frame.retarget = Some(frame.prev)
        /\ anim.live
        /\ anim.from = frame.prev
        /\ anim.to = IF frame.visible THEN value ELSE frame.prev
        /\ frame.visible => frame.displayed = Some(frame.prev)

\* C8 witness: an animated, visible release frame whose snap moved the value.
C8_Witness ==
    /\ C8_AnimatedRelease /\ frame.visible
    /\ IsSome(FrameSel)
    /\ value # frame.prev
    /\ anim.to = value
\* The dial of the end-to-end case: min = -PI, max = PI, Signed, Top,
\* Clockwise, the pointer at polar angle 3*PI/2.
C11_Frame ==
    /\ DialWrote
    /\ frame.mode = "Signed"
    /\ frame.orientation.tag = "Top" /\ frame.direction = "Clockwise"
    /\ frame.min = Some(0 - PI) /\ frame.max = Some(PI)
    /\ ~frame.pointer.zero /\ frame.pointer.theta = (3 * PI) \div 2

\* C11 as claimed: that dial commits the nearer of min and max.
C11_ClampsToBound ==
    C11_Frame => (value = 0 - PI \/ value = PI)

\* C11 amended: that dial commits 0, the pointer being on the dial's zero
\* direction, and the committed value lies in [-PI, PI] without any clamping.
C11_CommitsZero ==
    C11_Frame => (value = 0 /\ 0 - PI <= value /\ value <= PI)

\* C11 witness: the end-to-end frame has run and stored 0.
C11_Witness == C11_Frame /\ value = 0 /\ frame.changed

\* C12: a ribbon drag frame commits constrain_value(previous - dx / width *
\* spread): a positive dx lowers the candidate, a negative one raises it, and a
\* full-width drag moves it by exactly spread.
C12_DragCommit ==
    frame.op = "ribbon_drag" =>
        /\ value = constrain_value(frame.mode, frame.min, frame.max,
                       frame.prev - (frame.dx * frame.spread) \div frame.width)
        /\ (frame.mode = "SpinAround" /\ NoRange) =>
              /\ frame.width * (frame.prev - value) = frame.dx * frame.spread
              /\ frame.dx > 0 => value < frame.prev
              /\ frame.dx < 0 => value > frame.prev
              /\ frame.dx = frame.width => value = frame.prev - frame.spread
        /\ (frame.mode # "SpinAround" /\ NoRange) =>
              (frame.width * (frame.prev - value) - frame.dx * frame.spread)
                  % (frame.width * TAU) = 0

\* C12 witness: a full-width drag to the right has lowered an unbounded value
\* by exactly spread.
C12_Witness ==
    /\ frame.op = "ribbon_drag" /\ frame.mode = "SpinAround" /\ NoRange
    /\ frame.dx = frame.width
    /\ value = frame.prev - frame.spread

\* The step the shift flag of the frame picks, as the claim states it.
C13_Chosen == IF frame.shift THEN frame.shift_snap ELSE frame.snap

\* The dial's candidate before the snap.
C13_DialPreSnap ==
    DialSpinAround(frame.mode, frame.prev,
        DialUnsigned(frame.mode,
            RawAngle(frame.orientation, frame.direction, frame.pointer)))

\* C13: the step of a commit is the shift step when shift is held and the
\* primary step otherwise; an absent chosen step means no snapping, whatever
\* the other step is.
C13_ShiftSelectsStep ==
    /\ (frame.op = "ribbon_release" /\ ~frame.faulted) =>
          IF IsSome(C13_Chosen)
          THEN /\ frame.wrote
               /\ value = constrain_value(frame.mode, frame.min, frame.max,
                              RoundDiv(frame.prev, Unwrap(C13_Chosen)) * Unwrap(C13_Chosen))
          ELSE ~frame.wrote /\ ~frame.changed /\ value = frame.prev
    /\ DialWrote =>
          IF IsSome(C13_Chosen)
          THEN value = DialClamp(frame.min, frame.max,
                           RoundDiv(C13_DialPreSnap, Unwrap(C13_Chosen)) * Unwrap(C13_Chosen))
          ELSE value = DialClamp(frame.min, frame.max, C13_DialPreSnap)

\* C13 witness: a ribbon with no primary step and a shift step of 3, released
\* without shift on a value that is no multiple of 3, keeps the value.
C13_Witness ==
    /\ frame.op = "ribbon_release" /\ ~frame.shift
    /\ frame.snap = None /\ frame.shift_snap = Some(3)
    /\ frame.prev % 3 # 0
    /\ value = frame.prev /\ ~frame.wrote
\* A ribbon frame that ran to its end and painted.
C14_Painted ==
    /\ frame.op \in {"ribbon_drag", "ribbon_release", "ribbon_idle"}
    /\ frame.visible /\ ~frame.faulted

\* C14: the value used for rendering is the committed value on every dragged
\* frame and on every frame with the animation disabled; it may differ only
\* when the ribbon is animated and not dragged.
C14_DisplayedIsCommitted ==
    (C14_Painted /\ (frame.op = "ribbon_drag" \/ ~frame.animated)) =>
        frame.displayed = Some(value)

\* C14 witness: an animated ribbon is dragged while its animation entry aims
\* at another value, and the committed value is what is rendered.
C14_Witness ==
    /\ C14_Painted /\ frame.op = "ribbon_drag" /\ frame.animated
    /\ anim.live /\ anim.to # value
    /\ frame.displayed = Some(value)

\* C16 as claimed: the animation entry of the ribbon is dropped on the frame in
\* which a drag on it begins.
C16_ResetOnDragStart ==
    [][(~dragging /\ dragging') => anim' = NoAnim]_vars

\* C16 amended: a dragged frame, the one that begins the drag included, leaves
\* the animation entry as it is; the entry is dropped and seeded anew with the
\* committed value on the frame in which the drag is released, when animated.
C16_ResetOnRelease ==
    [][ /\ frame'.op = "ribbon_drag" => anim' = anim
        /\ (frame'.op = "ribbon_release" /\ frame'.animated /\ ~frame'.visible)
              => anim' = Anim(value, value, AnimFrames)
        /\ (frame'.op = "ribbon_release" /\ frame'.animated /\ ~frame'.faulted)
              => (anim'.live /\ anim'.from = value) ]_vars

\* C16 witness: a drag has begun one frame after the animation was turned
\* toward a new value, and the running animation is still there.
C16_Witness ==
    /\ frame.op = "ribbon_drag" /\ frame.animated
    /\ anim.live /\ anim.age = 1 /\ anim.from # anim.to
\* Ranges with min <= max, or a bound absent: those of the configurations and
\* ranges that lie beyond the fold intervals or are a single point.
C17_Ranges ==
    Ranges \cup
    { <<Some(PI + 1), Some(TAU + 1)>>, <<Some(0 - TAU - 1), Some(0 - PI - 1)>>,
      <<Some(TAU + 1), None>>, <<None, Some(0 - 1)>>, <<Some(PI), Some(PI)>> }

\* C17: constrain_value is idempotent.  The candidate of every drag frame is
\* constrained under every wrap mode and every range, and constraining the
\* result again returns it; the value a drag frame committed is a fixed point
\* of the frame's own constrain_value.
C17_Idempotent ==
    frame.op = "ribbon_drag" =>
        /\ \A m \in Modes, r \in C17_Ranges :
              LET c == constrain_value(m, r[1], r[2], FrameCandidate)
              IN  constrain_value(m, r[1], r[2], c) = c
        /\ constrain_value(frame.mode, frame.min, frame.max, value) = value

\* C17 witness: a Signed drag whose candidate lies beyond PI is folded and then
\* clamped, and the commit differs from both the candidate and its fold.
C17_Witness ==
    /\ frame.op = "ribbon_drag" /\ frame.mode = "Signed"
    /\ FrameCandidate > PI
    /\ value # FrameCandidate /\ value # normalized_angle(FrameCandidate)
    /\ value = constrain_value(frame.mode, frame.min, frame.max, FrameCandidate)
    /\ constrain_value(frame.mode, frame.min, frame.max, value) = value
\* The raw pointer angle of the last dial frame: the polar angle of the pointer
\* vector turned back by the orientation, times the winding sign.
C18_Raw == RawAngle(frame.orientation, frame.direction, frame.pointer)

\* C18: in SpinAround mode with no snap step and no min/max, the value the dial
\* commits differs from the raw pointer angle by a whole number of turns.
C18_CongruentToRaw ==
    (DialWrote /\ frame.mode = "SpinAround" /\ C13_Chosen = None /\ NoRange) =>
        (value - C18_Raw) % TAU = 0

\* C18 witness: a dial more than a turn away from zero is moved, and the
\* commit is the raw angle plus a nonzero number of turns, a correction by one
\* turn after the previous turns were added included.
C18_Witness ==
    /\ DialWrote /\ frame.mode = "SpinAround" /\ C13_Chosen = None /\ NoRange
    /\ ~frame.pointer.zero
    /\ frame.prev > TAU
    /\ value # C18_Raw + RoundDiv(frame.prev, TAU) * TAU
    /\ (value - C18_Raw) % TAU = 0

\* The value the snap of the last frame was applied to: the dial's candidate
\* after the wrap mode, the ribbon's committed value at the release.
C19_PreSnap == IF frame.op = "dial" THEN C13_DialPreSnap ELSE frame.prev

\* A frame whose snap ran: a dial commit or a ribbon release with a positive
\* chosen step.
C19_Snapped ==
    /\ DialWrote \/ (frame.op = "ribbon_release" /\ ~frame.faulted)
    /\ IsSome(C13_Chosen) /\ Unwrap(C13_Chosen) > 0

\* C19: the snapped candidate round(v / step) * step of the dial and of the
\* ribbon is an integer multiple of the step at distance at most step / 2 from
\* v; it is what the dial commits after the clamp and the ribbon after
\* constrain_value.
C19_NearestMultiple ==
    C19_Snapped =>
        LET step == Unwrap(C13_Chosen)
            c == SnapTo(C19_PreSnap, step)
        IN  /\ c % step = 0
            /\ 2 * Abs(c - C19_PreSnap) <= step
            /\ frame.op = "dial" => value = DialClamp(frame.min, frame.max, c)
            /\ frame.op = "ribbon_release" =>
                  value = constrain_value(frame.mode, frame.min, frame.max, c)
            /\ (NoRange /\ (frame.op = "dial" \/ frame.mode = "SpinAround")) =>
                  /\ value % step = 0
                  /\ 2 * Abs(value - C19_PreSnap) <= step

\* C19 witness: a ribbon release with step 3 snaps a value one short of a
\* multiple of 3 up to that multiple.
C19_Witness ==
    /\ C19_Snapped /\ frame.op = "ribbon_release"
    /\ frame.mode = "SpinAround" /\ NoRange
    /\ Unwrap(C13_Chosen) = 3 /\ frame.prev % 3 = 2
    /\ value = frame.prev + 1
\* The ribbon is left alone from here on: no drag is under way and the program
\* runs.
C15_NoInput == ~dragging /\ status = "running"

\* An idle frame rendered the committed value.
C15_ShowsCommitted == frame.op = "ribbon_idle" /\ frame.displayed = Some(value)

\* C15: after a drag on an animated ribbon is released and no further input
\* arrives, a frame is reached that displays the committed value, and every
\* later frame displays it too.
C15_Settles ==
    ((frame.op = "ribbon_release" /\ ~frame.faulted) /\ []C15_NoInput)
        ~> (<>C15_ShowsCommitted
              /\ <>[](frame.op = "ribbon_idle" => frame.displayed = Some(value)))

\* C15 witness: the animation the release turned from the dragged value toward
\* the snapped one has run its AnimFrames frames, and the idle frame displays
\* the committed value.
C15_Witness ==
    /\ C15_NoInput /\ C15_ShowsCommitted
    /\ anim.live /\ anim.from # anim.to /\ anim.to = value
    /\ anim.age = AnimFrames - 1
\* The last frame painted the ribbon and recorded where.
C20_Painted == frame.op = "ribbon_paint"

\* C20: the cursor of the displayed value is painted at center_x; a stop at
\* displayed + spread/2 is painted at center_x + width/2 and a stop at
\* displayed - spread/2 at center_x - width/2; and of two angles painted in a
\* frame (min, max, the displayed value) the greater is painted further right.
C20_ScreenMapping ==
    C20_Painted =>
        LET d == Unwrap(frame.displayed)
            half_s == frame.spread \div 2
            half_w == frame.width \div 2
        IN  /\ frame.cursor_x = frame.center_x
            /\ \A b \in {<<frame.min, frame.min_x>>, <<frame.max, frame.max_x>>} :
                  IsSome(b[1]) =>
                     /\ IsSome(b[2])
                     /\ Unwrap(b[1]) = d + half_s => Unwrap(b[2]) = frame.center_x + half_w
                     /\ Unwrap(b[1]) = d - half_s => Unwrap(b[2]) = frame.center_x - half_w
                     /\ Unwrap(b[1]) < d <=> Unwrap(b[2]) < frame.cursor_x
                     /\ Unwrap(b[1]) > d <=> Unwrap(b[2]) > frame.cursor_x
            /\ (IsSome(frame.min) /\ IsSome(frame.max)
                  /\ Unwrap(frame.min) < Unwrap(frame.max))
                  => Unwrap(frame.min_x) < Unwrap(frame.max_x)

\* C20 witness: while the animation is on its way (the displayed value is not
\* the committed one), the cursor is at a center_x other than 0, and the stops
\* of min = displayed - spread/2 and max = displayed + spread/2 are on the two
\* edges.
C20_Witness ==
    /\ C20_Painted /\ frame.animated
    /\ frame.displayed # Some(value)
    /\ frame.center_x # 0 /\ frame.cursor_x = frame.center_x
    /\ frame.min = Some(Unwrap(frame.displayed) - frame.spread \div 2)
    /\ frame.max = Some(Unwrap(frame.displayed) + frame.spread \div 2)
    /\ frame.min_x = Some(frame.center_x - frame.width \div 2)
    /\ frame.max_x = Some(frame.center_x + frame.width \div 2)
\* The frames in which the setter may run: a clicked or dragged dial, a dragged
\* ribbon, a released ribbon whose chosen snap step is present.
C25_Interaction ==
    \/ frame.op = "dial"
    \/ frame.op = "ribbon_drag"
    \/ frame.op = "ribbon_release" /\ IsSome(C13_Chosen)

\* C25: the backing value is written only on interaction frames; on every
\* other frame, a release frame with an absent chosen step included, the
\* setter is not invoked and the value is the one the frame started from.
C25_WritesOnlyOnInteraction ==
    /\ frame.wrote => C25_Interaction
    /\ (frame.op # "none" /\ ~C25_Interaction) => (~frame.wrote /\ value = frame.prev)

\* C25 witness: a drag moved the ribbon off zero and is released with shift
\* held, the shift step absent and the primary step present; nothing is
\* written.
C25_Witness ==
    /\ frame.op = "ribbon_release" /\ frame.shift
    /\ frame.shift_snap = None /\ IsSome(frame.snap)
    /\ ~frame.wrote /\ value = frame.prev /\ value % Unwrap(frame.snap) # 0

\* C26: the "changed this frame" flag is raised only on frames in which the
\* committed value after the frame differs from the value before the frame.
C26_ChangedMeansDifferent == frame.changed => value # frame.prev

\* C29 as claimed: on a ribbon release with a chosen step s > 0 the value
\* finally committed is a multiple of s within s/2 of the value the last drag
\* frame committed, in every wrap mode and for every min/max.
C29_CommitIsNearestMultiple ==
    (frame.op = "ribbon_release" /\ ~frame.faulted
        /\ IsSome(C13_Chosen) /\ Unwrap(C13_Chosen) > 0) =>
        /\ value % Unwrap(C13_Chosen) = 0
        /\ 2 * Abs(value - frame.prev) <= Unwrap(C13_Chosen)

\* C29 amended: the value finally committed is the fold and clamp of the
\* nearest multiple m of s; it is itself a multiple of s within s/2 of the
\* last drag commit whenever fold and clamp leave m as it is, as they do in
\* SpinAround mode without min/max.
C29_SnapThenConstrain ==
    (frame.op = "ribbon_release" /\ ~frame.faulted
        /\ IsSome(C13_Chosen) /\ Unwrap(C13_Chosen) > 0) =>
        LET s == Unwrap(C13_Chosen)
            m == RoundDiv(frame.prev, s) * s
            kept == \/ frame.mode = "SpinAround" /\ NoRange
                    \/ /\ frame.mode = "Signed" => (m >= 0 - PI /\ m <= PI)
                       /\ frame.mode = "Unsigned" => (m >= 0 /\ m <= TAU)
                       /\ IsSome(frame.min) => m >= Unwrap(frame.min)
                       /\ IsSome(frame.max) => m <= Unwrap(frame.max)
        IN  /\ m % s = 0 /\ 2 * Abs(m - frame.prev) <= s
            /\ kept => value = m
            /\ (frame.mode = "Signed" /\ NoRange) =>
                  (value - m) % TAU = 0 /\ value >= 0 - PI /\ value <= PI
            /\ (frame.mode = "Unsigned" /\ NoRange) =>
                  (value - m) % TAU = 0 /\ value >= 0 /\ value <= TAU
            /\ (IsSome(frame.max) /\ value # Unwrap(frame.max)
                  /\ (IsSome(frame.min) => value # Unwrap(frame.min))
                  /\ frame.mode = "SpinAround") => value = m

\* C29 witness: an Unsigned ribbon without min/max is released beyond the
\* fold interval's middle with step 3; the multiple of 3 is folded and the
\* commit is no multiple of 3.
C29_Witness ==
    /\ frame.op = "ribbon_release" /\ ~frame.faulted
    /\ frame.mode = "Unsigned" /\ NoRange
    /\ C13_Chosen = Some(3)
    /\ value % 3 # 0
    /\ (value - RoundDiv(frame.prev, 3) * 3) % TAU = 0

\* A Signed or Unsigned drag frame with min <= max and the previous value
\* inside [min, max].
C30_BoundedDrag ==
    /\ frame.op = "ribbon_drag" /\ frame.mode \in {"Signed", "Unsigned"}
    /\ IsSome(frame.min) /\ IsSome(frame.max)
    /\ Unwrap(frame.min) <= Unwrap(frame.max)
    /\ frame.prev >= Unwrap(frame.min) /\ frame.prev <= Unwrap(frame.max)

\* The fold of the wrap mode of the last frame.
C30_Fold(v) ==
    IF frame.mode = "Signed" THEN normalized_angle(v)
    ELSE normalized_angle_unsigned_incl(v)

\* C30 as claimed: a drag whose candidate falls below min commits min, one
\* whose candidate rises above max commits max.
C30_SaturatesAtPushedBound ==
    C30_BoundedDrag =>
        /\ FrameCandidate < Unwrap(frame.min) => value = Unwrap(frame.min)
        /\ FrameCandidate > Unwrap(frame.max) => value = Unwrap(frame.max)

\* C30 amended: the candidate is folded first and clamped afterwards; the drag
\* commits min when the folded candidate is below min and max when it is above
\* max, so it saturates at the bound it was pushed against as long as the
\* candidate stays in the fold interval, and a candidate that leaves the fold
\* interval is wrapped first and may commit the opposite bound.
C30_SaturatesAfterFold ==
    C30_BoundedDrag =>
        LET f == C30_Fold(FrameCandidate)
        IN  /\ f < Unwrap(frame.min) => value = Unwrap(frame.min)
            /\ f > Unwrap(frame.max) => value = Unwrap(frame.max)
            /\ (f >= Unwrap(frame.min) /\ f <= Unwrap(frame.max)) => value = f
            /\ f = FrameCandidate =>
                  /\ FrameCandidate < Unwrap(frame.min) => value = Unwrap(frame.min)
                  /\ FrameCandidate > Unwrap(frame.max) => value = Unwrap(frame.max)

\* C30 witness: an Unsigned ribbon with min = 0 and max = PI stands at 0 and is
\* dragged below 0; the candidate wraps to just under a full turn and max is
\* committed.
C30_Witness ==
    /\ C30_BoundedDrag /\ frame.mode = "Unsigned"
    /\ frame.min = Some(0) /\ frame.max = Some(PI) /\ frame.prev = 0
    /\ FrameCandidate < 0 /\ value = PI
\* The signed angular increment of the last dial frame: the way from the
\* direction of the previous value to the raw pointer angle, the short way
\* round, in [-PI, PI].
C24_Increment ==
    LET d == (C18_Raw - frame.prev) % TAU
    IN  IF d > PI THEN d - TAU ELSE d

\* C24: in SpinAround mode with no snap and no min/max, a dial frame whose
\* pointer direction is less than half a turn away from the previous one
\* commits the previous value plus the signed angular increment, so a sequence
\* of such frames accumulates the increments across multiples of 2*PI and never
\* snaps back at the +-PI boundary.
C24_Accumulates ==
    (DialWrote /\ frame.mode = "SpinAround" /\ C13_Chosen = None /\ NoRange
        /\ Abs(C24_Increment) < PI) =>
        value = frame.prev + C24_Increment

\* C24 witness: a dial that has been turned past a full turn is turned on in
\* the same sense, over the end of its second turn's first half.
C24_Witness ==
    /\ DialWrote /\ frame.mode = "SpinAround" /\ C13_Chosen = None /\ NoRange
    /\ ~frame.pointer.zero
    /\ frame.prev > TAU /\ frame.prev <= TAU + PI
    /\ C24_Increment > 0 /\ Abs(C24_Increment) < PI
    /\ value > TAU + PI /\ value = frame.prev + C24_Increment
\* C27: releasing a drag on an animated ribbon leaves the animation state of
\* every other control untouched.
C27_OthersUntouched ==
    [][frame'.op = "ribbon_release" => others' = others]_vars
\* The last frame painted the ticks of the ribbon.
C21_Ticked == frame.op = "ribbon_ticks"

\* The tick the last frame painted at a degree, if it painted one there.
C21_TickAt(degree) == { t \in frame.ticks : t.degree = degree }

\* C21: every tick follows the four-tier rule, for positive, zero and negative
\* degrees: a multiple of 90 has scale 1.0 and the label labels[(degree/90)
\* mod 4] (0 and 360 labels[0], 90 labels[1], -90 labels[3]); a multiple of 30
\* but not 90 has scale 0.75, a multiple of 10 but not 30 scale 0.5, any other
\* multiple of 5 scale 0.3, all three without label.
C21_FourTiers ==
    C21_Ticked =>
        /\ \A t \in frame.ticks :
              /\ t.degree % 90 = 0 =>
                    /\ t.scale = 100
                    /\ t.label = Some(labels[((t.degree \div 90) % 4) + 1])
              /\ (t.degree % 30 = 0 /\ t.degree % 90 # 0) =>
                    (t.scale = 75 /\ t.label = None)
              /\ (t.degree % 10 = 0 /\ t.degree % 30 # 0) =>
                    (t.scale = 50 /\ t.label = None)
              /\ (t.degree % 5 = 0 /\ t.degree % 10 # 0) =>
                    (t.scale = 30 /\ t.label = None)
        /\ \A t \in C21_TickAt(0) \cup C21_TickAt(360) : t.label = Some("N")
        /\ \A t \in C21_TickAt(90) : t.label = Some("E")
        /\ \A t \in C21_TickAt(0 - 90) : t.label = Some("W")
        /\ \A t \in C21_TickAt(100) : t.scale = 50
        /\ \A t \in C21_TickAt(45) : t.scale = 30

\* C21 witness: a frame whose ticks run from negative to positive degrees,
\* with the labelled ticks of -90, 0 and 90 and the unlabelled ones of 30, 45
\* and 100 among them.
C21_Witness ==
    /\ C21_Ticked
    /\ [degree |-> 0 - 90, scale |-> 100, label |-> Some("W"), unreachable |-> FALSE]
          \in frame.ticks
    /\ [degree |-> 0, scale |-> 100, label |-> Some("N"), unreachable |-> FALSE]
          \in frame.ticks
    /\ [degree |-> 90, scale |-> 100, label |-> Some("E"), unreachable |-> FALSE]
          \in frame.ticks
    /\ [degree |-> 30, scale |-> 75, label |-> None, unreachable |-> FALSE]
          \in frame.ticks
    /\ [degree |-> 45, scale |-> 30, label |-> None, unreachable |-> FALSE]
          \in frame.ticks
    /\ [degree |-> 100, scale |-> 50, label |-> None, unreachable |-> FALSE]
          \in frame.ticks

\* The degrees of the ticks of the last frame.
C22_Degrees == { t.degree : t \in frame.ticks }

\* C22: the ticks are exactly the multiples of 5 from the window's lower end
\* rounded down to a multiple of 10 to its upper end rounded up to one, both
\* included; every multiple of 5 inside the window has a tick, and the
\* unreachable!() branch is never taken.
C22_TicksCoverWindow ==
    C21_Ticked =>
        LET lo == frame.lo_degrees
            hi == frame.hi_degrees
            first == CHOOSE d \in (lo - 9)..lo : d % 10 = 0
            last == CHOOSE d \in hi..(hi + 9) : d % 10 = 0
        IN  /\ C22_Degrees = { d \in first..last : d % 5 = 0 }
            /\ first \in C22_Degrees /\ last \in C22_Degrees
            /\ \A d \in lo..hi : d % 5 = 0 => d \in C22_Degrees
            /\ \A t \in frame.ticks : ~t.unreachable /\ t.degree % 5 = 0
            /\ ~frame.faulted
\* The last frame painted the ribbon with a marker.
C23_Marked == frame.op = "ribbon_marker"

\* C23: the stored angle of a marker lies in [0, 2*PI) and is the argument of
\* new folded by whole turns, whether the argument is negative or more than a
\* turn, and whether or not the shape, label and color setters were applied.
C23_MarkerAngleFolded ==
    C23_Marked =>
        /\ frame.marker.angle >= 0 /\ frame.marker.angle < TAU
        /\ frame.marker.angle = frame.marker_arg % TAU

\* C23 witness: a marker built from an angle of more than a turn and styled
\* with another shape, a label and a color stores the angle less one turn.
C23_Witness ==
    /\ C23_Marked
    /\ frame.marker_arg > TAU /\ frame.marker_arg < 2 * TAU
    /\ frame.marker.shape = "UpArrow" /\ frame.marker.label = Some("A")
    /\ frame.marker.color = "RED"
    /\ frame.marker.angle = frame.marker_arg - TAU /\ frame.marker.angle > 0

\* C28: a marker whose angle is congruent modulo 2*PI to the displayed value
\* is drawn at center_x, in every wrap mode.
C28_CongruentMarkerCentered ==
    (C23_Marked /\ (frame.marker.angle - Unwrap(frame.displayed)) % TAU = 0) =>
        frame.marker_x = frame.center_x
====
